---- MODULE Spec2Model ----
(***************************************************************************)
(* MediTrack: schedule-to-dose generation and the dose reminder lifecycle. *)
(*                                                                         *)
(* Time is counted in minutes of local wall-clock time since local         *)
(* midnight of day 0 (daylight-saving changes are not modelled).  An       *)
(* optional value (endDate, actualTime) is a set with at most one element. *)
(***************************************************************************)
EXTENDS Integers, Sequences, FiniteSets, TLC

VARIABLES
    now,            \* the platform clock, new Date()
    tz,             \* local time minus UTC, in minutes
    wd0,            \* Date.getDay() of day 0
    medications,    \* object store 'medications': the ids present
    schedules,      \* object store 'schedules': id -> Schedule
    doses,          \* object store 'doses': id -> Dose
    nextId,         \* the next value of crypto.randomUUID()
    form,           \* ScheduleSetupScreen: the submitted form data
    gen,            \* the running generateDosesForSchedule call
    perm,           \* checkNotificationSupport(): supported and granted
    ctxDoses,       \* AppContext state `doses`: id -> Dose as last loaded
    nextDose,       \* TodayTab state `nextDose`: at most one Dose
    activeNotification, \* Home state: at most one in-app reminder prompt
    osNotifications,    \* dose ids with an OS notification on display
    listeners,      \* dose id -> 'message' listeners registered for it
    timers,         \* armed setTimeout callbacks: timer -> how many
    ops,            \* the asynchronous handlers in flight: handler -> how many
    calls,          \* user actions that can still be made
    deleting,       \* the deleteMedication call in flight, if any
    caregiver,      \* notifyCaregiverEnabled, with an address and a user name
    emails,         \* the notifyCaregiverAutomatically calls made so far
    dismissed,      \* dose ids whose in-app prompt was closed or timed out
    clock,          \* the time override module in use and its variables
    pin             \* PinLockScreen: its state and its validations in flight

genVars == <<tz, wd0, medications, schedules, nextId, form, gen>>
uiVars == <<perm, ctxDoses, nextDose, activeNotification, osNotifications,
            listeners, timers, ops, calls>>
auxVars == <<deleting, caregiver, emails, dismissed, clock, pin>>
vars == <<now, doses, genVars, uiVars, auxVars>>

----------------------------------------------------------------------------
(* Program constants *)

MinutesPerHour == 60
DayMinutes == 1440
HorizonDays == 30
SnoozeMinutes == 10
DaysPerWeek == 7

(* Bounds of the generation inputs *)

Today == 3          \* the calendar day on which the schedule form is submitted
MaxStartAhead == 1  \* the start date is at most this many days after Today
MaxStartBehind == 2 \* the start date is at most this many days before Today

NowTimes == {<<7, 0>>, <<9, 0>>, <<21, 0>>}
TZOffsets == {0 - 300, 0, 600}
TimesChoices == {<< <<8, 0>>, <<20, 0>> >>, << <<8, 0>> >>}
Frequencies == {"daily", "multiple_daily", "specific_days", "every_x_days", "as_needed"}
StartDays == (Today - MaxStartBehind) .. (Today + MaxStartAhead)
EndOffsets == {0 - 1, 6, 13}

----------------------------------------------------------------------------
(* Dates *)

Max(a, b) == IF a >= b THEN a ELSE b

\* the local calendar day of an instant
DateOf(t) == t \div DayMinutes

\* Date.setHours(h, m, 0, 0) on a copy of instant t
SetHours(t, hm) == DateOf(t) * DayMinutes + hm[1] * MinutesPerHour + hm[2]

\* Date.getDay() of instant t
GetDay(t) == (wd0 + DateOf(t)) % DaysPerWeek

\* new Date('yyyy-MM-dd'): a date-only string is midnight UTC of that day,
\* which the local clock (UTC + offset) shows as that day's midnight + offset
ParseDate(day, offset) == day * DayMinutes + offset

\* Date.setDate(getDate() + n)
AddDays(t, n) == t + n * DayMinutes

----------------------------------------------------------------------------
(* The time override modules: lib/timeUtils.ts and lib/timeOverride.ts *)

ClockModules == {"timeUtils", "timeOverride"}

\* no override is set
NoOverride(module) ==
    [module |-> module, overrideTimeOffset |-> {}, overrideTimestamp |-> {},
     pinned |-> {}]

\* getCurrentTime(). timeUtils: new Date(Date.now() + overrideTimeOffset);
\* timeOverride: new Date(), which the replaced Date constructor answers
\* with new OriginalDate(overrideTimestamp)
GetCurrentTime ==
    IF clock.module = "timeUtils"
    THEN IF clock.overrideTimeOffset = {} THEN now
         ELSE now + (CHOOSE o \in clock.overrideTimeOffset : TRUE)
    ELSE IF clock.overrideTimestamp = {} THEN now
         ELSE CHOOSE t \in clock.overrideTimestamp : TRUE

\* PIN lock screen before it is shown
NoPin ==
    [shown |-> FALSE, pin |-> << >>, attempts |-> 0, locked |-> FALSE,
     lockTimer |-> 0, validating |-> << >>, verified |-> FALSE,
     owing |-> FALSE]

\* neither an override nor a PIN lock screen
Plain == clock = NoOverride("timeUtils") /\ pin = NoPin

----------------------------------------------------------------------------
(* generateDosesForSchedule *)

\* no call is running; savedSchedule is the Schedule object that a call was
\* given
NoGen == [pc |-> "idle", schedule |-> 0, savedSchedule |-> [id |-> 0],
          medicationId |-> 0, now |-> 0,
          thirtyDaysFromNow |-> 0, startDate |-> 0, endDate |-> 0,
          currentDate |-> 0, timeIdx |-> 0, generatedDoses |-> << >>]

\* a faulty switch: the as_needed case falls through to the daily one
ShouldCreateDoseFallThrough(s, currentDate, startDate) ==
    CASE s.frequency = "daily" -> TRUE
      [] s.frequency = "multiple_daily" -> TRUE
      [] s.frequency = "specific_days" -> GetDay(currentDate) \in s.specificDays
      [] s.frequency = "every_x_days" ->
            /\ s.everyXDays # 0
            /\ ((currentDate - startDate) \div DayMinutes) % s.everyXDays = 0
      [] s.frequency = "as_needed" -> TRUE

\* the switch on schedule.frequency
ShouldCreateDose(s, currentDate, startDate) ==
    CASE s.frequency = "daily" -> TRUE
      [] s.frequency = "multiple_daily" -> TRUE
      [] s.frequency = "specific_days" -> GetDay(currentDate) \in s.specificDays
      [] s.frequency = "every_x_days" ->
            /\ s.everyXDays # 0
            /\ ((currentDate - startDate) \div DayMinutes) % s.everyXDays = 0
      [] s.frequency = "as_needed" -> FALSE

\* a faulty test: compares calendar days only, so earlier times of today pass
IsFutureSameDay(scheduledTime, callTime) ==
    scheduledTime >= DateOf(callTime) * DayMinutes

\* line 322: only create future doses
IsFuture(scheduledTime, callTime) == scheduledTime > callTime

\* a faulty literal: the id is derived from the schedule and the time, so
\* that a second put for the same time replaces the stored dose
NewDoseKeyed(id, medicationId, scheduleId, scheduledTime) ==
    [id |-> scheduleId + scheduledTime, medicationId |-> medicationId,
     scheduleId |-> scheduleId, status |-> "pending",
     scheduledTime |-> scheduledTime, actualTime |-> {}, snoozeCount |-> 0]

\* the new Dose literal
NewDose(id, medicationId, scheduleId, scheduledTime) ==
    [id |-> id, medicationId |-> medicationId, scheduleId |-> scheduleId,
     status |-> "pending", scheduledTime |-> scheduledTime,
     actualTime |-> {}, snoozeCount |-> 0]

\* db.put(store, value)
Put(store, id, value) ==
    [i \in DOMAIN store \cup {id} |-> IF i = id THEN value ELSE store[i]]

\* ScheduleSetupScreen.onSubmit: saveSchedule, then generateDosesForSchedule
\* up to its first await
OnSubmit ==
    /\ gen.pc = "idle"
    /\ form.submitted = FALSE
    /\ LET s == [id |-> nextId,
                 medicationId |-> form.medicationId,
                 frequency |-> form.frequency,
                 times |-> form.times,
                 specificDays |-> form.specificDays,
                 everyXDays |-> form.everyXDays,
                 startDate |-> ParseDate(form.startDate, tz),
                 endDate |-> {ParseDate(d, tz) : d \in form.endDate},
                 active |-> TRUE]
       IN /\ schedules' = Put(schedules, s.id, s)
          /\ nextId' = nextId + 1
          /\ form' = [form EXCEPT !.submitted = TRUE]
          /\ gen' = [NoGen EXCEPT !.pc = "start", !.schedule = s.id,
                                  !.savedSchedule = s,
                                  !.medicationId = form.medicationId]
    /\ UNCHANGED <<now, tz, wd0, medications, doses, uiVars, auxVars>>

\* an early return that does not look at schedule.active
EarlyReturnWhateverActive(active, startDate, endDate, thirty, asOf) ==
    startDate > thirty \/ endDate < asOf

\* if (!schedule.active || startDate > thirtyDaysFromNow || endDate < now)
EarlyReturn(active, startDate, endDate, thirty, asOf) ==
    ~active \/ startDate > thirty \/ endDate < asOf

\* lines 274-286: the window and the early return
GenStart ==
    /\ gen.pc = "start"
    /\ LET s == gen.savedSchedule
           thirty == AddDays(now, HorizonDays)
           startDate == s.startDate
           endDate == IF s.endDate = {} THEN thirty
                      ELSE (CHOOSE e \in s.endDate : TRUE)
       IN IF EarlyReturn(s.active, startDate, endDate, thirty, now)
          THEN gen' = [gen EXCEPT !.pc = "done", !.now = now,
                          !.thirtyDaysFromNow = thirty,
                          !.startDate = startDate, !.endDate = endDate]
          ELSE gen' = [gen EXCEPT !.pc = "day", !.now = now,
                          !.thirtyDaysFromNow = thirty,
                          !.startDate = startDate, !.endDate = endDate,
                          !.currentDate = Max(startDate, now)]
    /\ UNCHANGED <<now, tz, wd0, medications, schedules, doses, nextId, form, uiVars, auxVars>>

\* one test of the while loop, with the frequency switch
GenDay ==
    /\ gen.pc = "day"
    /\ LET s == gen.savedSchedule
       IN IF gen.currentDate <= gen.endDate
          THEN IF ShouldCreateDose(s, gen.currentDate, gen.startDate)
                  /\ Len(s.times) > 0
               THEN gen' = [gen EXCEPT !.pc = "time", !.timeIdx = 1]
               ELSE gen' = [gen EXCEPT
                               !.currentDate = AddDays(gen.currentDate, 1)]
          ELSE gen' = [gen EXCEPT !.pc = "done"]
    /\ UNCHANGED <<now, tz, wd0, medications, schedules, doses, nextId, form, uiVars, auxVars>>

\* one pass of the for loop over schedule.times, with its db.put
GenTime ==
    /\ gen.pc = "time"
    /\ LET s == gen.savedSchedule
           scheduledTime == SetHours(gen.currentDate, s.times[gen.timeIdx])
           newDose == NewDose(nextId, gen.medicationId, s.id, scheduledTime)
           last == gen.timeIdx = Len(s.times)
           after == IF last
                    THEN [gen EXCEPT !.pc = "day", !.timeIdx = 0,
                             !.currentDate = AddDays(gen.currentDate, 1)]
                    ELSE [gen EXCEPT !.timeIdx = gen.timeIdx + 1]
       IN IF IsFuture(scheduledTime, gen.now)
          THEN /\ doses' = Put(doses, newDose.id, newDose)
               /\ nextId' = nextId + 1
               /\ gen' = [after EXCEPT
                            !.generatedDoses = Append(gen.generatedDoses, newDose)]
          ELSE /\ gen' = after
               /\ UNCHANGED <<doses, nextId>>
    /\ UNCHANGED <<now, tz, wd0, medications, schedules, form, uiVars, auxVars>>

\* the for loop's await db.put('doses', newDose) rejects: nothing catches it
\* in generateDosesForSchedule, the call rejects and onSubmit's catch shows
\* the error toast
GenPutFails ==
    /\ gen.pc = "time"
    /\ LET s == gen.savedSchedule
           scheduledTime == SetHours(gen.currentDate, s.times[gen.timeIdx])
       IN IsFuture(scheduledTime, gen.now)
    /\ gen' = [gen EXCEPT !.pc = "failed"]
    /\ UNCHANGED <<now, tz, wd0, medications, schedules, doses, nextId, form,
                   uiVars, auxVars>>

----------------------------------------------------------------------------
(* Bounds of the reminder lifecycle model *)

NumDoses == 1       \* doses in the store when the application is opened
MaxTime == 2        \* minutes the application stays open
MaxOps == 8         \* asynchronous handlers in flight at the same time
MaxCalls == 2       \* user actions in one behaviour

DoseIds == 1 .. NumDoses

\* the application is opened at midnight, or MaxTime minutes before it
OpenTimes == {0, DayMinutes - MaxTime}

\* the stored doses are due one or two minutes after the opening
DoseOffsets == 1 .. 2

----------------------------------------------------------------------------
(* storage.ts: reading and updating doses *)

\* getDose: at most one Dose
GetDose(id) == IF id \in DOMAIN doses THEN {doses[id]} ELSE {}

\* updateDose: { ...existingDose, ...dose }
Merge(existing, patch) ==
    [existing EXCEPT
        !.status = patch.status,
        !.scheduledTime = IF patch.scheduledTime = {} THEN @
                          ELSE CHOOSE t \in patch.scheduledTime : TRUE,
        !.actualTime = IF patch.actualTime = {} THEN @ ELSE patch.actualTime,
        !.snoozeCount = IF patch.snoozeCount = {} THEN @
                        ELSE CHOOSE c \in patch.snoozeCount : TRUE]

\* getDosesForDay(date): the doses scheduled on the local day of `date`
GetDosesForDay(date) ==
    LET ids == {id \in DOMAIN doses :
                   /\ doses[id].scheduledTime >= DateOf(date) * DayMinutes
                   /\ doses[id].scheduledTime < (DateOf(date) + 1) * DayMinutes}
    IN [id \in ids |-> doses[id]]

\* refreshData: each of today's doses with the medication that
\* getMedication(dose.medicationId) finds for it, if any
WithMedication(list) ==
    [id \in DOMAIN list |->
        [f \in DOMAIN list[id] \cup {"medication"} |->
            IF f = "medication"
            THEN {list[id].medicationId} \cap medications
            ELSE list[id][f]]]

\* the first element of a dose list sorted by scheduledTime (stable, in key
\* order) among those with the ids in S
FirstOf(list, S) ==
    CHOOSE id \in S :
        \A other \in S :
            \/ list[id].scheduledTime < list[other].scheduledTime
            \/ /\ list[id].scheduledTime = list[other].scheduledTime
               /\ id <= other

----------------------------------------------------------------------------
(* The patches that the confirm and snooze handlers pass to updateDose *)

\* takeDose, handleTakeNow, the 'confirm' message: taken at currentTime
TakenPatch(currentTime) ==
    [status |-> "taken", scheduledTime |-> {}, actualTime |-> {currentTime},
     snoozeCount |-> {}]

\* snoozeDose, handleRemindLater, the 'snooze' message: snoozed for 10
\* minutes from now, (snoozeCount || 0) + 1
SnoozeUpdate(currentTime, snoozeCount) ==
    [status |-> "snoozed", scheduledTime |-> {currentTime + SnoozeMinutes},
     actualTime |-> {}, snoozeCount |-> {snoozeCount + 1}]

----------------------------------------------------------------------------
(* Timers, notifications and the cached views *)

\* a handler at its call: what it will write, the dose that takeDose and
\* snoozeDose found in the context's list (cached), and the stored dose it
\* was called on (seen, kept for the properties only)
NewOp(kind, id, patch) ==
    [kind |-> kind, dose |-> id, pc |-> "get", callTime |-> now,
     patch |-> patch, existing |-> {},
     cached |-> IF kind \in {"takeDose", "snoozeDose"} /\ id \in DOMAIN ctxDoses
                THEN {ctxDoses[id]} ELSE {},
     seen |-> GetDose(id)]

\* one more copy of each element of S in a bag (element -> copies)
BagPlus(bag, S) ==
    [t \in DOMAIN bag \cup S |->
        (IF t \in DOMAIN bag THEN bag[t] ELSE 0) + (IF t \in S THEN 1 ELSE 0)]

\* one copy less of x
BagMinus(bag, x) ==
    IF bag[x] > 1 THEN [bag EXCEPT ![x] = @ - 1]
    ELSE [y \in DOMAIN bag \ {x} |-> bag[y]]

\* n more copies of x
BagCopies(bag, x, n) ==
    IF n = 0 THEN bag
    ELSE [t \in DOMAIN bag \cup {x} |->
            (IF t \in DOMAIN bag THEN bag[t] ELSE 0) + (IF t = x THEN n ELSE 0)]

RECURSIVE BagSize(_)
BagSize(bag) ==
    IF DOMAIN bag = {} THEN 0
    ELSE LET x == CHOOSE x \in DOMAIN bag : TRUE
         IN bag[x] + BagSize([y \in DOMAIN bag \ {x} |-> bag[y]])

\* handlers that can still be started
FreeOps == MaxOps - BagSize(ops)

\* a handler moves on
Step(op, next) == BagPlus(BagMinus(ops, op), {next})

ConfirmKinds == {"takeDose", "handleTakeNow", "messageConfirm"}
SnoozeKinds == {"snoozeDose", "handleRemindLater", "messageSnooze"}

ShowTimer(id, at) == [kind |-> "show", dose |-> id, at |-> at]
SnoozeReminderTimer(id, at) == [kind |-> "snoozeReminder", dose |-> id, at |-> at]

\* scheduleNotifications(upcomingDoses): a timer per pending dose of the
\* list that is still ahead
ScheduleNotifications(bag, list) ==
    IF ~perm THEN bag
    ELSE BagPlus(bag, {ShowTimer(id, list[id].scheduledTime) :
                      id \in {i \in DOMAIN list :
                                 /\ list[i].status = "pending"
                                 /\ list[i].scheduledTime - now > 0}})

\* Home's effect on [doses, activeNotification]: prompt for the first
\* pending dose due within the next minute, unless a prompt is open
PromptEffect(list, active) ==
    LET due == {id \in DOMAIN list :
                   /\ list[id].status = "pending"
                   /\ list[id].scheduledTime - now >= 0
                   /\ list[id].scheduledTime - now < 1}
    IN IF active = {} /\ due # {}
       THEN {FirstOf(list, due)}
       ELSE active

\* loadTodayDoses: the next upcoming dose
NextUpcoming(list) ==
    LET upcoming == {id \in DOMAIN list :
                        /\ list[id].status = "pending"
                        /\ list[id].scheduledTime > now}
    IN IF upcoming = {} THEN {} ELSE {list[FirstOf(list, upcoming)]}

----------------------------------------------------------------------------
(* Actions of the application once doses exist *)

\* refreshData as run by the mount effect and the one-minute interval: the
\* closure of the first render, in which hasNotificationPermission is false
PeriodicRefresh ==
    /\ ctxDoses' = WithMedication(GetDosesForDay(now))
    /\ activeNotification' = PromptEffect(ctxDoses', activeNotification)
    /\ <<ctxDoses', activeNotification'>> # <<ctxDoses, activeNotification>>
    /\ UNCHANGED <<now, doses, genVars, auxVars, perm, nextDose, osNotifications,
                   listeners, timers, ops, calls>>

\* TodayTab.loadTodayDoses, on mount and every minute
LoadTodayDoses ==
    /\ nextDose' = NextUpcoming(GetDosesForDay(now))
    /\ nextDose' # nextDose
    /\ UNCHANGED <<now, doses, genVars, auxVars, perm, ctxDoses, activeNotification,
                   osNotifications, listeners, timers, ops, calls>>

\* Home.handleScheduleComplete: refreshData of the current render
HandleScheduleComplete ==
    /\ calls > 0
    /\ calls' = calls - 1
    /\ ctxDoses' = WithMedication(GetDosesForDay(now))
    /\ timers' = ScheduleNotifications(timers, ctxDoses')
    /\ activeNotification' = PromptEffect(ctxDoses', activeNotification)
    /\ UNCHANGED <<now, doses, genVars, auxVars, perm, nextDose, osNotifications,
                   listeners, ops>>

\* a timer runs: showMedicationReminder(dose), or AppContext's snoozeReminder
TimerFire ==
    \E t \in DOMAIN timers :
        /\ t.at <= now
        /\ timers' = IF t.kind = "snoozeReminder"
                        /\ \E d \in GetDose(t.dose) : d.status = "snoozed"
                     THEN ScheduleNotifications(BagMinus(timers, t), GetDosesForDay(now))
                     ELSE BagMinus(timers, t)
        /\ IF t.kind = "show" /\ perm
           THEN /\ osNotifications' = osNotifications \cup {t.dose}
                /\ listeners' = [listeners EXCEPT ![t.dose] = @ + 1]
                /\ UNCHANGED <<ctxDoses, activeNotification>>
           ELSE /\ UNCHANGED <<osNotifications, listeners>>
                /\ IF t.kind = "snoozeReminder"
                      /\ \E d \in GetDose(t.dose) : d.status = "snoozed"
                   THEN /\ ctxDoses' = WithMedication(GetDosesForDay(now))
                        /\ activeNotification' =
                              PromptEffect(ctxDoses', activeNotification)
                   ELSE UNCHANGED <<ctxDoses, activeNotification>>
        /\ UNCHANGED <<now, doses, genVars, auxVars, perm, nextDose, ops, calls>>

\* MedicationNotification's isVisible: the prompt hides itself as soon as
\* one of its buttons is pressed, and Home clears it when the handler is done
PromptVisible ==
    \A op \in DOMAIN ops : op.kind \notin {"takeDose", "snoozeDose"}

\* the prompt's Confirm button: Home.handleConfirmDose -> takeDose
ConfirmPrompt ==
    \E id \in activeNotification :
        /\ calls > 0
        /\ calls' = calls - 1
        /\ PromptVisible
        /\ IF id \in DOMAIN ctxDoses
           THEN /\ FreeOps > 0
                /\ ops' = BagPlus(ops, {NewOp("takeDose", id, TakenPatch(now))})
                /\ UNCHANGED activeNotification
           ELSE /\ activeNotification' = PromptEffect(ctxDoses, {})
                /\ UNCHANGED ops
        /\ UNCHANGED <<now, doses, genVars, auxVars, perm, ctxDoses, nextDose,
                       osNotifications, listeners, timers>>

\* the prompt's Snooze button: Home.handleSnoozeDose -> snoozeDose
SnoozePrompt ==
    \E id \in activeNotification :
        /\ calls > 0
        /\ calls' = calls - 1
        /\ PromptVisible
        /\ IF id \in DOMAIN ctxDoses
           THEN /\ FreeOps > 0
                /\ ops' = BagPlus(ops, {NewOp("snoozeDose", id,
                                   SnoozeUpdate(now, ctxDoses[id].snoozeCount))})
                /\ UNCHANGED activeNotification
           ELSE /\ activeNotification' = PromptEffect(ctxDoses, {})
                /\ UNCHANGED ops
        /\ UNCHANGED <<now, doses, genVars, auxVars, perm, ctxDoses, nextDose,
                       osNotifications, listeners, timers>>

\* a prompt that confirmed the dose when it goes away
OnCloseAutoConfirm(id) ==
    IF id \in DOMAIN doses
    THEN Put(doses, id, Merge(doses[id], TakenPatch(now)))
    ELSE doses

\* the store after Home's onClose, () => setActiveNotification(null), for
\* the prompt of dose id
OnClose(id) == doses

\* the prompt's close button, or its 60 second timer
ClosePrompt ==
    \E id \in activeNotification :
        /\ PromptVisible
        /\ doses' = OnClose(id)
        /\ activeNotification' = PromptEffect(ctxDoses, {})
        /\ dismissed' = dismissed \cup {id}
        /\ UNCHANGED <<now, genVars, deleting, caregiver, clock, pin, emails, perm,
                       ctxDoses, nextDose, osNotifications, listeners, timers,
                       ops, calls>>

\* TodayTab 'Take Now' on the next dose
HandleTakeNow ==
    \E d \in nextDose :
        /\ calls > 0
        /\ calls' = calls - 1
        /\ FreeOps > 0
        /\ ops' = BagPlus(ops, {NewOp("handleTakeNow", d.id, TakenPatch(now))})
        /\ UNCHANGED <<now, doses, genVars, auxVars, perm, ctxDoses, nextDose,
                       activeNotification, osNotifications, listeners, timers>>

\* TodayTab 'Remind Later' on the next dose
HandleRemindLater ==
    \E d \in nextDose :
        /\ calls > 0
        /\ calls' = calls - 1
        /\ FreeOps > 0
        /\ ops' = BagPlus(ops, {NewOp("handleRemindLater", d.id,
                                   SnoozeUpdate(now, d.snoozeCount))})
        /\ UNCHANGED <<now, doses, genVars, auxVars, perm, ctxDoses, nextDose,
                       activeNotification, osNotifications, listeners, timers>>

\* service worker notificationclick with action 'confirm': the message
\* reaches every listener registered for the dose
NotificationConfirm ==
    \E id \in osNotifications :
        /\ calls > 0
        /\ calls' = calls - 1
        /\ FreeOps >= listeners[id]
        /\ osNotifications' = osNotifications \ {id}
        /\ ops' = BagCopies(ops, NewOp("messageConfirm", id, TakenPatch(now)),
                             listeners[id])
        /\ UNCHANGED <<now, doses, genVars, auxVars, perm, ctxDoses, nextDose,
                       activeNotification, listeners, timers>>

\* service worker notificationclick with action 'snooze': every listener
\* reads the dose and, when it exists, snoozes it
NotificationSnooze ==
    \E id \in osNotifications :
        /\ calls > 0
        /\ calls' = calls - 1
        /\ FreeOps >= listeners[id]
        /\ osNotifications' = osNotifications \ {id}
        /\ ops' = IF GetDose(id) = {} THEN ops
                  ELSE BagCopies(ops, NewOp("messageSnooze", id,
                                            SnoozeUpdate(now, doses[id].snoozeCount)),
                                 listeners[id])
        /\ UNCHANGED <<now, doses, genVars, auxVars, perm, ctxDoses, nextDose,
                       activeNotification, listeners, timers>>

\* notifyCaregiverAutomatically(caregiverEmail, userName, action, details)
\* as called by takeDose ('taken') and snoozeDose ('snoozed')
CaregiverEmail(op) ==
    [action |-> IF op.kind = "takeDose" THEN "taken" ELSE "snoozed",
     dose |-> op.dose, time |-> op.callTime]

\* updateDose: await getDose(id)
OpGet ==
    \E op \in DOMAIN ops :
        /\ op.pc = "get"
        /\ ops' = Step(op, [op EXCEPT !.existing = GetDose(op.dose),
                                      !.pc = IF GetDose(op.dose) = {}
                                             THEN "after" ELSE "put"])
        /\ UNCHANGED <<now, doses, genVars, auxVars, perm, ctxDoses, nextDose,
                       activeNotification, osNotifications, listeners, timers,
                       calls>>

\* updateDose: await db.put('doses', updatedDose)
OpPut ==
    \E op \in DOMAIN ops :
        /\ op.pc = "put"
        /\ doses' = Put(doses, op.dose,
                        Merge(CHOOSE e \in op.existing : TRUE, op.patch))
        /\ ops' = Step(op, [op EXCEPT !.pc = "after"])
        /\ UNCHANGED <<now, genVars, auxVars, perm, ctxDoses, nextDose,
                       activeNotification, osNotifications, listeners, timers,
                       calls>>

\* what a handler does once updateDose has returned
OpAfter ==
    \E op \in DOMAIN ops :
        /\ op.pc = "after"
        /\ ops' = BagMinus(ops, op)
        /\ CASE op.kind \in {"takeDose", "snoozeDose"} ->
                \* (snoozeDose: setTimeout(snoozeReminder);) await
                \* refreshData(); then Home clears the prompt
                /\ ctxDoses' = WithMedication(GetDosesForDay(now))
                /\ timers' = ScheduleNotifications(
                                IF op.kind = "snoozeDose"
                                THEN BagPlus(timers, {SnoozeReminderTimer(op.dose,
                                                     now + SnoozeMinutes)})
                                ELSE timers,
                                ctxDoses')
                /\ activeNotification' = PromptEffect(ctxDoses', {})
                /\ UNCHANGED nextDose
             [] op.kind \in {"handleTakeNow", "handleRemindLater"} ->
                \* loadTodayDoses()
                /\ nextDose' = NextUpcoming(GetDosesForDay(now))
                /\ UNCHANGED <<ctxDoses, timers, activeNotification>>
             [] op.kind = "messageSnooze" ->
                \* setTimeout(() => showMedicationReminder(dose), 10 minutes)
                /\ timers' = BagPlus(timers, {ShowTimer(op.dose, now + SnoozeMinutes)})
                /\ UNCHANGED <<ctxDoses, nextDose, activeNotification>>
             [] op.kind = "messageConfirm" ->
                UNCHANGED <<ctxDoses, nextDose, timers, activeNotification>>
        \* takeDose, snoozeDose: if (notifyCaregiverEnabled ...) with
        \* medication = dose.medication || await getMedication(...)
        /\ emails' = IF /\ caregiver
                         /\ op.kind \in {"takeDose", "snoozeDose"}
                         /\ \E d \in op.cached :
                               \/ d.medication # {}
                               \/ d.medicationId \in medications
                      THEN emails \cup {CaregiverEmail(op)}
                      ELSE emails
        /\ UNCHANGED <<now, doses, genVars, deleting, caregiver, clock, pin, dismissed, perm,
                       osNotifications, listeners, calls>>

\* nothing happens until the next armed timer is due
Sleep ==
    /\ ops = << >>
    /\ deleting = {}
    /\ timers # << >>
    /\ \A t \in DOMAIN timers : t.at > now
    /\ \E t \in DOMAIN timers :
          /\ \A u \in DOMAIN timers : t.at <= u.at
          /\ now' = t.at
    /\ UNCHANGED <<doses, genVars, uiVars, auxVars>>

\* the page is closed and opened again: timers and listeners are gone, and
\* the mount effects of AppProvider, Home and TodayTab load the doses with
\* the refreshData of the first render, which arms nothing
Reload ==
    /\ ops = << >>
    /\ deleting = {}
    /\ calls > 0
    /\ calls' = calls - 1
    /\ timers' = << >>
    /\ listeners' = [id \in DOMAIN listeners |-> 0]
    /\ ctxDoses' = WithMedication(GetDosesForDay(now))
    /\ activeNotification' = PromptEffect(ctxDoses', {})
    /\ nextDose' = NextUpcoming(GetDosesForDay(now))
    /\ UNCHANGED <<now, doses, genVars, auxVars, perm, osNotifications, ops>>

\* db.delete(store, key) for a set of keys
Delete(store, ids) == [i \in DOMAIN store \ ids |-> store[i]]

\* MedicationsTab.handleDeleteMedication -> deleteMedication(id), up to the
\* schedules read from the 'by-medication' index
DeleteMedication ==
    /\ deleting = {}
    /\ calls > 0
    /\ calls' = calls - 1
    /\ \E m \in medications :
          LET found == {i \in DOMAIN schedules : schedules[i].medicationId = m}
          IN deleting' = {[medicationId |-> m, pc |-> "schedule",
                           schedules |-> found, todo |-> found, doses |-> {}]}
    /\ UNCHANGED <<now, doses, genVars, caregiver, clock, pin, emails, dismissed, perm,
                   ctxDoses, nextDose, activeNotification, osNotifications,
                   listeners, timers, ops>>

\* deleteSchedule(id): the doses read from the 'by-schedule' index
DeleteScheduleRead ==
    \E d \in deleting :
        /\ d.pc = "schedule"
        /\ d.todo # {}
        /\ LET id == CHOOSE i \in d.todo : \A j \in d.todo : i <= j
           IN deleting' = {[d EXCEPT !.pc = "doses",
                                     !.doses = {i \in DOMAIN doses :
                                                   doses[i].scheduleId = id}]}
        /\ UNCHANGED <<now, doses, genVars, caregiver, clock, pin, emails, dismissed, uiVars>>

\* deleteSchedule(id): the doses that were read are deleted, then the schedule
DeleteScheduleWrite ==
    \E d \in deleting :
        /\ d.pc = "doses"
        /\ LET id == CHOOSE i \in d.todo : \A j \in d.todo : i <= j
           IN /\ doses' = Delete(doses, d.doses)
              /\ schedules' = Delete(schedules, {id})
              /\ deleting' = {[d EXCEPT !.pc = "schedule", !.todo = @ \ {id},
                                        !.doses = {}]}
        /\ UNCHANGED <<now, tz, wd0, medications, nextId, form, gen, caregiver, clock, pin,
                       emails, dismissed, uiVars>>

\* deleteMedication(id): after the loop, the medication itself
DeleteMedicationDone ==
    \E d \in deleting :
        /\ d.pc = "schedule"
        /\ d.todo = {}
        /\ medications' = medications \ {d.medicationId}
        /\ deleting' = {}
        /\ UNCHANGED <<now, doses, tz, wd0, schedules, nextId, form, gen,
                       caregiver, clock, pin, emails, dismissed, uiVars>>

\* a minute passes; handlers in flight and due timers run first
Tick ==
    /\ \E opened \in OpenTimes : opened <= now /\ now < opened + MaxTime
    /\ ops = << >>
    /\ deleting = {}
    /\ \A t \in DOMAIN timers : t.at > now
    /\ now' = now + 1
    /\ UNCHANGED <<doses, genVars, uiVars, auxVars>>

----------------------------------------------------------------------------
(* The lifecycle specification: the application is opened on a store that
   holds the pending doses of one generated schedule *)

\* the user interface before anything has been loaded
UiIdle ==
    /\ perm = FALSE
    /\ ctxDoses = << >>
    /\ nextDose = {}
    /\ activeNotification = {}
    /\ osNotifications = {}
    /\ listeners = [id \in DoseIds |-> 0]
    /\ timers = << >>
    /\ ops = << >>
    /\ calls = MaxCalls
    /\ deleting = {}
    /\ caregiver = FALSE
    /\ emails = {}
    /\ dismissed = {}

\* the application is opened on doses that are due after one of the
\* offsets; budget user actions will be made
Opened(budget, dueAfter) ==
    /\ now \in OpenTimes
    /\ tz = 0
    /\ wd0 = 0
    /\ medications = {1}
    /\ schedules = Put(<< >>, 1, [id |-> 1, medicationId |-> 1,
                                  frequency |-> "daily", times |-> << >>,
                                  specificDays |-> {}, everyXDays |-> 0,
                                  startDate |-> 0, endDate |-> {},
                                  active |-> TRUE])
    /\ \E offsets \in [DoseIds -> dueAfter] :
          doses = [id \in DoseIds |-> NewDose(id, 1, 1, now + offsets[id])]
    /\ nextId = NumDoses + 1
    /\ form = [medicationId |-> 1, frequency |-> "daily", times |-> << >>,
               specificDays |-> {}, everyXDays |-> 0, startDate |-> 0,
               endDate |-> {}, submitted |-> TRUE]
    /\ gen = [NoGen EXCEPT !.pc = "done"]
    /\ perm \in BOOLEAN
    /\ ctxDoses = << >>
    /\ nextDose = {}
    /\ activeNotification = {}
    /\ osNotifications = {}
    /\ listeners = [id \in DoseIds |-> 0]
    /\ timers = << >>
    /\ ops = << >>
    /\ calls = budget
    /\ Plain
    /\ deleting = {}
    /\ caregiver \in BOOLEAN
    /\ emails = {}
    /\ dismissed = {}

Init == Opened(MaxCalls, DoseOffsets)

Next ==
    \/ PeriodicRefresh \/ LoadTodayDoses \/ HandleScheduleComplete
    \/ TimerFire \/ SnoozePrompt \/ ConfirmPrompt \/ ClosePrompt
    \/ HandleTakeNow \/ HandleRemindLater
    \/ NotificationConfirm \/ NotificationSnooze
    \/ OpGet \/ OpPut \/ OpAfter \/ Tick
    \/ DeleteMedication \/ DeleteScheduleRead \/ DeleteScheduleWrite
    \/ DeleteMedicationDone \/ Reload \/ Sleep

Spec == Init /\ [][Next]_vars

\* The Home page alone: the context's refreshes, the prompt with its three
\* ways out, the handlers they start and the timers these arm
NextPrompt ==
    \/ Tick \/ PeriodicRefresh \/ SnoozePrompt \/ ConfirmPrompt \/ ClosePrompt
    \/ OpGet \/ OpPut \/ OpAfter \/ TimerFire \/ Sleep \/ Reload

SpecPrompt == Init /\ [][NextPrompt]_vars

\* The Today tab alone, opened on doses that are due soon or later than a
\* snooze would put them
InitToday == Opened(MaxCalls, DoseOffsets \cup {SnoozeMinutes + 1})

NextToday ==
    \/ LoadTodayDoses \/ HandleTakeNow \/ HandleRemindLater
    \/ OpGet \/ OpPut \/ OpAfter \/ Tick

SpecToday == InitToday /\ [][NextToday]_vars

\* The OS notification alone: the timers are armed once, and the user
\* answers each notification of a dose with one of its two actions
MaxSnoozes == 4     \* answers to the notifications of a dose

\* with the notification permission granted and no caregiver to tell
InitSnooze == Opened(MaxSnoozes + 1, DoseOffsets) /\ perm /\ ~caregiver

\* the schedule setup is completed once, before any answer
SetupComplete == HandleScheduleComplete /\ calls = MaxSnoozes + 1

NextSnooze ==
    \/ SetupComplete \/ Tick \/ Sleep \/ TimerFire
    \/ NotificationSnooze \/ NotificationConfirm
    \/ OpGet \/ OpPut \/ OpAfter

SpecSnooze == InitSnooze /\ [][NextSnooze]_vars

----------------------------------------------------------------------------
(* The clock specification: an override is set and cleared while real time
   passes; the variable now is the real clock *)

MaxReal == 4        \* minutes of real time

\* the instants an override asks for
OverrideTargets == {0, DayMinutes}

\* setTimeOverride(isoTimeString) at real time now
SetTimeOverride ==
    \E target \in OverrideTargets :
        /\ calls > 0
        /\ calls' = calls - 1
        /\ clock' = IF clock.module = "timeUtils"
                     THEN \* overrideTimeOffset = targetTime - Date.now()
                          [clock EXCEPT !.overrideTimeOffset = {target - now},
                                        !.pinned = {[at |-> now, target |-> target]}]
                     ELSE \* overrideTimestamp = overrideTime.getTime();
                          \* Date.now and Date are replaced
                          [clock EXCEPT !.overrideTimestamp = {target},
                                        !.pinned = {[at |-> now, target |-> target]}]
        /\ UNCHANGED <<now, doses, genVars, deleting, caregiver, emails,
                       dismissed, pin, perm, ctxDoses, nextDose,
                       activeNotification, osNotifications, listeners, timers,
                       ops>>

\* clearTimeOverride()
ClearTimeOverride ==
    /\ calls > 0
    /\ calls' = calls - 1
    /\ clock' = [clock EXCEPT !.overrideTimeOffset = {},
                              !.overrideTimestamp = {},
                              !.pinned = {}]
    /\ UNCHANGED <<now, doses, genVars, deleting, caregiver, emails, dismissed,
                   pin, perm, ctxDoses, nextDose, activeNotification,
                   osNotifications, listeners, timers, ops>>

\* a minute of real time passes
RealTick ==
    /\ now < MaxReal
    /\ now' = now + 1
    /\ UNCHANGED <<doses, genVars, uiVars, auxVars>>

InitClock ==
    /\ now = 0
    /\ tz = 0
    /\ wd0 = 0
    /\ medications = {}
    /\ schedules = << >>
    /\ doses = << >>
    /\ nextId = 1
    /\ form = [medicationId |-> 1, frequency |-> "daily", times |-> << >>,
               specificDays |-> {}, everyXDays |-> 0, startDate |-> 0,
               endDate |-> {}, submitted |-> FALSE]
    /\ gen = NoGen
    /\ UiIdle
    /\ clock \in {NoOverride(m) : m \in ClockModules}
    /\ pin = NoPin

NextClock == SetTimeOverride \/ ClearTimeOverride \/ RealTick

SpecClock == InitClock /\ [][NextClock]_vars

----------------------------------------------------------------------------
(* The PIN specification: PinLockScreen is shown until the PIN is verified;
   seconds pass on the lock timer *)

PinLength == 4      \* the pin state has four positions
MaxAttempts == 3    \* newAttempts >= 3 locks
LockSeconds == 300  \* setLockTimer(300)
MaxValidating == 2  \* validatePin calls waiting at the same time

\* the keys pressed: 1 is right at every position, 2 is wrong
Digits == {1, 2}

\* settings.pin
CorrectPin == [i \in 1 .. PinLength |-> 1]

\* App renders PinLockScreen: a fresh component; whether the countdown of
\* the last lock is still owed is kept for the properties only
Mounted(owing) == [NoPin EXCEPT !.shown = TRUE, !.owing = owing]

PinFrame == UNCHANGED <<now, doses, genVars, uiVars, deleting, caregiver,
                        emails, dismissed, clock>>

\* handlePinDigit(digit); the fourth digit starts validatePin after 300 ms
\* with the attempts of this render
PinDigit ==
    \E digit \in Digits :
        /\ pin.shown
        /\ ~pin.locked
        /\ Len(pin.pin) < PinLength
        /\ LET newPin == Append(pin.pin, digit)
           IN IF Len(newPin) = PinLength
              THEN /\ BagSize(pin.validating) < MaxValidating
                   /\ pin' = [pin EXCEPT
                                !.pin = newPin,
                                !.validating =
                                    BagPlus(@, {[enteredPin |-> newPin,
                                                 attempts |-> pin.attempts]})]
              ELSE pin' = [pin EXCEPT !.pin = newPin]
        /\ PinFrame

\* deleteLastDigit()
PinDelete ==
    /\ pin.shown
    /\ ~pin.locked
    /\ Len(pin.pin) > 0
    /\ pin' = [pin EXCEPT !.pin = SubSeq(@, 1, Len(@) - 1)]
    /\ PinFrame

\* the Clear button (disabled while locked): clearPin()
PinClear ==
    /\ pin.shown
    /\ ~pin.locked
    /\ Len(pin.pin) > 0
    /\ pin' = [pin EXCEPT !.pin = << >>]
    /\ PinFrame

\* validatePin(enteredPin) runs; a verified screen is unmounted by App and
\* the state updates of a validation that runs later are dropped
PinValidate ==
    \E v \in DOMAIN pin.validating :
        /\ LET rest == BagMinus(pin.validating, v)
               newAttempts == v.attempts + 1
           IN IF ~pin.shown
              THEN pin' = [pin EXCEPT !.validating = rest]
              ELSE IF v.enteredPin = CorrectPin
              THEN pin' = [pin EXCEPT !.validating = rest, !.verified = TRUE,
                                      !.shown = FALSE]
              ELSE IF newAttempts >= MaxAttempts
              THEN pin' = [pin EXCEPT !.validating = rest,
                                      !.attempts = newAttempts,
                                      !.locked = TRUE,
                                      !.lockTimer = LockSeconds,
                                      !.owing = TRUE]
              ELSE pin' = [pin EXCEPT !.validating = rest,
                                      !.attempts = newAttempts,
                                      !.pin = << >>]
        /\ PinFrame

\* the lock timer effect: a second after it was armed it counts down and,
\* at zero, unlocks and resets the attempts (seconds are counted while the
\* screen is locked only)
PinSecond ==
    /\ pin.locked
    /\ pin.lockTimer > 0
    /\ LET unlock == pin.lockTimer = 1
       IN pin' = [pin EXCEPT !.lockTimer = @ - 1,
                             !.locked = ~unlock,
                             !.attempts = IF unlock THEN 0 ELSE @,
                             !.owing = ~unlock]
    /\ PinFrame

\* the page is reloaded while the lock screen is up: App mounts a new
\* PinLockScreen, and the timeouts of the old page are gone
PinRemount ==
    /\ pin.shown
    /\ pin # Mounted(pin.owing)
    /\ pin' = Mounted(pin.owing)
    /\ PinFrame

InitPin ==
    /\ now = 0
    /\ tz = 0
    /\ wd0 = 0
    /\ medications = {}
    /\ schedules = << >>
    /\ doses = << >>
    /\ nextId = 1
    /\ form = [medicationId |-> 1, frequency |-> "daily", times |-> << >>,
               specificDays |-> {}, everyXDays |-> 0, startDate |-> 0,
               endDate |-> {}, submitted |-> FALSE]
    /\ gen = NoGen
    /\ UiIdle
    /\ clock = NoOverride("timeUtils")
    /\ pin = Mounted(FALSE)

NextPin ==
    PinDigit \/ PinDelete \/ PinClear \/ PinValidate \/ PinSecond \/ PinRemount

SpecPin == InitPin /\ [][NextPin]_vars

----------------------------------------------------------------------------
(* The generation specification: a schedule form is submitted once *)

\* the end dates offered with a start date: none, or a day near the start
EndDatesFor(sd) == {{}} \cup {{sd + k} : k \in EndOffsets}

Forms ==
    UNION { { [medicationId |-> 1, frequency |-> f, times |-> ts,
               specificDays |-> IF f = "specific_days" THEN {1, 3, 5} ELSE {},
               everyXDays |-> IF f = "every_x_days" THEN 3 ELSE 0,
               startDate |-> sd, endDate |-> ed, submitted |-> FALSE] :
                f \in Frequencies, ts \in TimesChoices, ed \in EndDatesFor(sd) } :
            sd \in StartDays }

InitGen ==
    /\ form \in Forms
    /\ tz \in TZOffsets
    /\ wd0 \in (IF form.frequency = "specific_days" THEN 0 .. (DaysPerWeek - 1) ELSE {0})
    /\ now \in {Today * DayMinutes + hm[1] * MinutesPerHour + hm[2] : hm \in NowTimes}
    /\ medications = {1}
    /\ schedules = << >>
    /\ doses = << >>
    /\ nextId = 1
    /\ gen = NoGen
    /\ UiIdle
    /\ Plain

NextGen == OnSubmit \/ GenStart \/ GenDay \/ GenTime

SpecGen == InitGen /\ [][NextGen]_vars

----------------------------------------------------------------------------
(* The failure specification: a schedule form is submitted once and a
   db.put of the generation may fail *)

NextFail == OnSubmit \/ GenStart \/ GenDay \/ GenTime \/ GenPutFails

SpecFail == InitGen /\ [][NextFail]_vars

----------------------------------------------------------------------------
(* The delete specification: a medication is deleted while its schedule
   form is submitted and the doses are generated *)

\* the form is submitted for a medication that is in the store
SubmitForStored == OnSubmit /\ form.medicationId \in medications

NextDelGen ==
    \/ SubmitForStored
    \/ GenStart
    \/ GenDay
    \/ GenTime
    \/ DeleteMedication
    \/ DeleteScheduleRead
    \/ DeleteScheduleWrite
    \/ DeleteMedicationDone

SpecDelGen == InitGen /\ [][NextDelGen]_vars

----------------------------------------------------------------------------
(* The call specification: generateDosesForSchedule is called on a stored
   schedule, active or not *)

InitCall ==
    /\ tz \in TZOffsets
    /\ \E f \in Forms, active \in BOOLEAN :
          /\ form = [f EXCEPT !.submitted = TRUE]
          /\ schedules =
                Put(<< >>, 1,
                    [id |-> 1,
                     medicationId |-> f.medicationId,
                     frequency |-> f.frequency,
                     times |-> f.times,
                     specificDays |-> f.specificDays,
                     everyXDays |-> f.everyXDays,
                     startDate |-> ParseDate(f.startDate, tz),
                     endDate |-> {ParseDate(d, tz) : d \in f.endDate},
                     active |-> active])
    /\ wd0 \in (IF form.frequency = "specific_days" THEN 0 .. (DaysPerWeek - 1) ELSE {0})
    /\ now \in {Today * DayMinutes + hm[1] * MinutesPerHour + hm[2] : hm \in NowTimes}
    /\ medications = {1}
    /\ doses = << >>
    /\ nextId = 2
    /\ gen = [NoGen EXCEPT !.pc = "start", !.schedule = 1,
                           !.savedSchedule = schedules[1], !.medicationId = 1]
    /\ UiIdle
    /\ Plain

NextCall == GenStart \/ GenDay \/ GenTime

SpecCall == InitCall /\ [][NextCall]_vars

----------------------------------------------------------------------------
(* The regeneration specification: generateDosesForSchedule runs again for
   the stored schedule while the Today tab confirms and snoozes its doses *)

\* generateDosesForSchedule(schedule, medication) called once more, at once
\* or a day later
GenerateAgain ==
    /\ gen.pc = "done"
    /\ form.submitted
    /\ gen.schedule \in DOMAIN schedules
    /\ calls > 0
    /\ calls' = calls - 1
    /\ \E later \in {0, 1} :
          /\ later = 1 => ops = << >>
          /\ now' = AddDays(now, later)
    /\ gen' = [NoGen EXCEPT !.pc = "start", !.schedule = gen.schedule,
                            !.savedSchedule = gen.savedSchedule,
                            !.medicationId = gen.medicationId]
    /\ UNCHANGED <<doses, tz, wd0, medications, schedules, nextId, form, perm,
                   ctxDoses, nextDose, activeNotification, osNotifications,
                   listeners, timers, ops, auxVars>>

\* schedules of three days, so that a second run overlaps the first
FormsRegen ==
    {[medicationId |-> 1, frequency |-> f, times |-> ts,
      specificDays |-> {},
      everyXDays |-> IF f = "every_x_days" THEN 3 ELSE 0,
      startDate |-> sd, endDate |-> {sd + 2}, submitted |-> FALSE] :
        f \in {"daily", "every_x_days"}, ts \in TimesChoices, sd \in StartDays}

InitRegen ==
    /\ form \in FormsRegen
    /\ tz \in TZOffsets
    /\ wd0 = 0
    /\ now \in {Today * DayMinutes + hm[1] * MinutesPerHour + hm[2] : hm \in NowTimes}
    /\ medications = {1}
    /\ schedules = << >>
    /\ doses = << >>
    /\ nextId = 1
    /\ gen = NoGen
    /\ UiIdle
    /\ Plain

NextRegen ==
    \/ OnSubmit \/ GenStart \/ GenDay \/ GenTime \/ GenerateAgain
    \/ LoadTodayDoses \/ HandleTakeNow \/ HandleRemindLater
    \/ OpGet \/ OpPut \/ OpAfter

SpecRegen == InitRegen /\ [][NextRegen]_vars

----------------------------------------------------------------------------
(* Properties of the dose lifecycle (checked under Spec) *)

\* this step is the db.put of handler op
PutBy(op) ==
    /\ op \in DOMAIN ops
    /\ op.pc = "put"
    /\ ops' = Step(op, [op EXCEPT !.pc = "after"])

OpsAtCall == {op \in DOMAIN ops : op.pc = "put"}

\* C1: a stored dose whose status is taken or missed keeps that status in
\* every later state, whatever confirm, snooze, timer or refresh runs.
C1_TerminalStatus ==
    [][\A id \in DOMAIN doses :
          (doses[id].status \in {"taken", "missed"} /\ id \in DOMAIN doses') =>
              doses'[id].status = doses[id].status]_vars

\* C2: a confirm called on a pending or snoozed dose leaves it taken with
\* actualTime the time of the call, and a confirm of a dose that is already
\* taken changes nothing (status and actualTime stay).
C2_ConfirmIdempotent ==
    [][\A op \in OpsAtCall :
          (op.kind \in ConfirmKinds /\ PutBy(op)) =>
              /\ (\E d \in op.seen : d.status \in {"pending", "snoozed"}) =>
                    /\ doses'[op.dose].status = "taken"
                    /\ doses'[op.dose].actualTime = {op.callTime}
              /\ (op.dose \in DOMAIN doses /\ doses[op.dose].status = "taken") =>
                    /\ doses'[op.dose].status = "taken"
                    /\ doses'[op.dose].actualTime = doses[op.dose].actualTime]_vars

\* the snooze handlers called on dose id in this step
SnoozeCalled(id) ==
    \/ SnoozePrompt /\ id \in activeNotification
    \/ HandleRemindLater /\ \E d \in nextDose : d.id = id
    \/ NotificationSnooze /\ id \in osNotifications \ osNotifications'

\* the handlers at their call (pc "get") that the step has started on id
StartedOn(id) ==
    {op \in DOMAIN ops' :
        /\ op.dose = id /\ op.pc = "get" /\ op.callTime = now
        /\ ops'[op] > (IF op \in DOMAIN ops THEN ops[op] ELSE 0)}

\* C3: a snooze action on a dose whose stored status is pending updates
\* the stored dose (the call starts an update of that dose), and the update
\* leaves it snoozed, scheduled 10 minutes after the call, with the
\* snoozeCount that was stored at the call plus one.
C3_SnoozePending ==
    [][/\ \A id \in DOMAIN doses :
             (SnoozeCalled(id) /\ doses[id].status = "pending") =>
                 \E op \in StartedOn(id) : op.kind \in SnoozeKinds
       /\ \A op \in OpsAtCall :
             (op.kind \in SnoozeKinds /\ PutBy(op)) =>
                 \A d \in op.seen :
                     d.status = "pending" =>
                         /\ doses'[op.dose].status = "snoozed"
                         /\ doses'[op.dose].scheduledTime = op.callTime + SnoozeMinutes
                         /\ doses'[op.dose].snoozeCount = d.snoozeCount + 1]_vars

\* C4: overlapping lifecycle operations on one dose lose no update: a
\* snooze never writes over a completed confirm that it did not read, and a
\* confirm never writes over a completed snooze that it did not read.
C4_NoLostUpdate ==
    [][\A op \in OpsAtCall :
          PutBy(op) =>
              /\ (op.kind \in SnoozeKinds /\ doses[op.dose].status = "taken") =>
                    \E e \in op.existing : e.status = "taken"
              /\ (op.kind \in ConfirmKinds /\ doses[op.dose].status = "snoozed") =>
                    op.existing = {doses[op.dose]}]_vars

----------------------------------------------------------------------------
(* Properties of generateDosesForSchedule (checked under SpecGen) *)

\* the instant of wall-clock time hm on calendar day d
At(d, hm) == d * DayMinutes + hm[1] * MinutesPerHour + hm[2]

FormTimes == {form.times[i] : i \in DOMAIN form.times}
GenDoses == {gen.generatedDoses[i] : i \in DOMAIN gen.generatedDoses}
GenScheduled == {d.scheduledTime : d \in GenDoses}
GenDates == {DateOf(t) : t \in GenScheduled}
GenReturned == gen.pc = "done"

\* the daily 08:00 / 20:00 schedule that starts today and has no end date
DailyFromToday ==
    /\ form.frequency = "daily"
    /\ form.times = << <<8, 0>>, <<20, 0>> >>
    /\ form.startDate = Today
    /\ form.endDate = {}

\* C5: the daily 08:00/20:00 schedule starting today, generated at 07:00,
\* yields exactly 60 pending doses: two for today and two for each of the
\* next 29 days.
C5_SixtyDoses ==
    (GenReturned /\ DailyFromToday /\ now = At(Today, <<7, 0>>)) =>
        /\ Len(gen.generatedDoses) = 60
        /\ \A d \in GenDoses : d.status = "pending"
        /\ GenScheduled = {At(Today + k, hm) : k \in 0 .. 29, hm \in FormTimes}

\* C6: every created dose is scheduled strictly after the time of the call;
\* with the daily 08:00/20:00 schedule generated at 09:00, today's 08:00
\* dose is not created while today's 20:00 dose and both doses of each of
\* the next 29 days are.
C6_OnlyFutureDoses ==
    /\ \A d \in GenDoses : d.scheduledTime > gen.now
    /\ \A id \in DOMAIN doses : doses[id].scheduledTime > now
    /\ (GenReturned /\ DailyFromToday /\ now = At(Today, <<9, 0>>)) =>
          /\ At(Today, <<8, 0>>) \notin GenScheduled
          /\ At(Today, <<20, 0>>) \in GenScheduled
          /\ \A k \in 1 .. 29 : \A hm \in FormTimes :
                At(Today + k, hm) \in GenScheduled

C6_Witness ==
    /\ GenReturned /\ DailyFromToday /\ now = At(Today, <<9, 0>>)
    /\ At(Today, <<20, 0>>) \in GenScheduled
    /\ At(Today, <<8, 0>>) \notin GenScheduled

\* C7: a daily schedule with start date s and inclusive end date s+6 gets
\* one dose per time on each of the dates s .. s+6, less only the doses
\* that are not after the time of the call, for every call time up to s+6.
C7_SevenDays ==
    (/\ GenReturned
     /\ form.frequency = "daily"
     /\ form.endDate = {form.startDate + 6}
     /\ DateOf(now) <= form.startDate + 6) =>
        /\ GenScheduled =
              {t \in {At(form.startDate + k, hm) : k \in 0 .. 6, hm \in FormTimes} :
                  t > now}
        /\ Len(gen.generatedDoses) = Cardinality(GenScheduled)

\* the calendar days of the generation window: from the later of the start
\* date and the call to the earlier of the end date and the horizon
WindowDates ==
    LET first == Max(form.startDate, DateOf(now))
        horizon == DateOf(AddDays(now, HorizonDays))
        last == IF form.endDate = {} THEN horizon
                ELSE LET e == CHOOSE e \in form.endDate : TRUE
                     IN IF e <= horizon THEN e ELSE horizon
    IN first .. last

\* C8: an every-3-days schedule with start date D gets doses on exactly the
\* dates D, D+3, D+6, ... of the generation window (that still have a time
\* after the call), also when the call is later than D.
C8_EveryThirdDay ==
    (GenReturned /\ form.frequency = "every_x_days") =>
        GenDates = {d \in WindowDates :
                       /\ (d - form.startDate) % 3 = 0
                       /\ \E hm \in FormTimes : At(d, hm) > now}

\* C9: a specific-days schedule for weekdays {1,3,5} whose window is 14
\* full days (start date after the day of the call, end date 13 days
\* later) gets doses on exactly 6 dates, each of weekday 1, 3 or 5.
C9_SixDatesInTwoWeeks ==
    (/\ GenReturned
     /\ form.frequency = "specific_days"
     /\ form.startDate > DateOf(now)
     /\ form.endDate = {form.startDate + 13}) =>
        /\ Cardinality(GenDates) = 6
        /\ \A d \in GenDates : (wd0 + d) % DaysPerWeek \in {1, 3, 5}

\* C10: an as_needed schedule never gets a generated dose: the returned
\* list is empty and the dose store stays as it was.
C10_AsNeededEmpty ==
    form.frequency = "as_needed" =>
        /\ gen.generatedDoses = << >>
        /\ doses = << >>

\* an as_needed schedule whose window was walked to its end
C10_Witness ==
    /\ form.frequency = "as_needed"
    /\ GenReturned
    /\ gen.currentDate > gen.endDate
    /\ gen.currentDate > Max(gen.startDate, gen.now)

----------------------------------------------------------------------------
(* Properties of deleteMedication and deleteSchedule (checked under Spec) *)

\* C12: when deleteSchedule(s) completes the store holds no dose of schedule
\* s, and when deleteMedication(m) completes the store holds no schedule of
\* m and no dose of any schedule that m had.
C12_CascadeDelete ==
    [][\A d \in deleting :
          /\ (d.pc = "doses" /\ deleting' # deleting) =>
                \A id \in DOMAIN doses' :
                    \E e \in deleting' : doses'[id].scheduleId \notin d.todo \ e.todo
          /\ (d.pc = "schedule" /\ deleting' = {}) =>
                /\ \A i \in DOMAIN schedules' :
                      schedules'[i].medicationId # d.medicationId
                /\ \A id \in DOMAIN doses' :
                      doses'[id].scheduleId \notin d.schedules]_vars

----------------------------------------------------------------------------
(* Properties of the reminder timers (checked under Spec) *)

\* the stored doses that still await their reminder
Open(id) == id \in DOMAIN doses /\ doses[id].status \in {"pending", "snoozed"}

\* the application re-synchronises with the store: on opening, on the
\* one-minute interval, or after a schedule was added
Resync == Reload \/ PeriodicRefresh \/ HandleScheduleComplete

\* C13: when the application re-synchronises, every pending or snoozed dose
\* that is already due gets its reminder shown (in the application or by the
\* operating system) or is marked missed.
C13_DueReminderNotLost ==
    [][Resync =>
          \A id \in DOMAIN doses :
              (Open(id) /\ doses[id].scheduledTime <= now) =>
                  \/ id \in activeNotification'
                  \/ id \in osNotifications'
                  \/ doses'[id].status = "missed"]_vars

\* the reminder timers (setTimeout of showMedicationReminder) armed for id
ShowTimersFor(id) ==
    BagSize([t \in {u \in DOMAIN timers : u.kind = "show" /\ u.dose = id} |->
                timers[t]])

\* C14: at any time at most one reminder timer is armed per dose id.
C14_OneTimerPerDose == \A id \in DoseIds : ShowTimersFor(id) <= 1

\* showMedicationReminder displays a notification for dose id in this step
ReminderShown(id) == id \in DOMAIN listeners /\ listeners'[id] > listeners[id]

\* C15: no reminder timer shows a notification for a dose whose stored
\* status is taken: confirming a dose cancels its timer.
C15_NoReminderAfterTaken ==
    [][\A id \in DOMAIN doses :
          ReminderShown(id) => doses[id].status # "taken"]_vars

\* some timer in the bag will remind of dose id
ArmedIn(bag, id) == \E t \in DOMAIN bag : t.kind = "show" /\ t.dose = id

\* C16: with notifications permitted, every re-synchronisation leaves a
\* timer armed for every stored pending or snoozed dose that lies in the
\* future, also for a dose snoozed before the page was loaded again.
C16_ResyncArmsOpenDoses ==
    [][(Resync /\ perm) =>
          \A id \in DOMAIN doses :
              (Open(id) /\ doses[id].scheduledTime > now) =>
                  ArmedIn(timers', id)]_vars

\* the callback of timer t runs in this step
Fired(t) ==
    /\ TimerFire
    /\ t \in DOMAIN timers
    /\ t.at <= now
    /\ (IF t \in DOMAIN timers' THEN timers'[t] ELSE 0) < timers[t]

\* C17: when the timer that a snooze armed for the new scheduledTime runs
\* and the dose is still snoozed, the reminder for the dose is shown again,
\* as an in-app prompt or as an OS notification.
C17_SnoozeRemindsAgain ==
    [][\A t \in DOMAIN timers :
          (/\ Fired(t)
           /\ t.dose \in DOMAIN doses
           /\ doses[t.dose].status = "snoozed"
           /\ doses[t.dose].scheduledTime = t.at) =>
              \/ t.dose \in activeNotification'
              \/ ReminderShown(t.dose)]_vars

----------------------------------------------------------------------------
(* Properties of the prompt and of the caregiver messages (checked under
   Spec) *)

\* C18: when the on-screen prompt of a dose goes away by its close button or
\* by its 60 second timer, the stored dose keeps its status, scheduledTime,
\* actualTime and snoozeCount, and no confirm or snooze is started for it.
C18_DismissLeavesDose ==
    [][ClosePrompt =>
          /\ DOMAIN doses' = DOMAIN doses
          /\ \A id \in DOMAIN doses :
                /\ doses'[id].status = doses[id].status
                /\ doses'[id].scheduledTime = doses[id].scheduledTime
                /\ doses'[id].actualTime = doses[id].actualTime
                /\ doses'[id].snoozeCount = doses[id].snoozeCount
          /\ ops' = ops]_vars

\* a prompt was dismissed for a dose that is due and is still pending in the
\* store
C18_Witness ==
    \E id \in dismissed :
        /\ id \in DOMAIN doses
        /\ doses[id].status = "pending"
        /\ doses[id].scheduledTime <= now

\* the handler op returns in this step
Returns(op) ==
    /\ OpAfter
    /\ op \in DOMAIN ops
    /\ op.pc = "after"
    /\ (IF op \in DOMAIN ops' THEN ops'[op] ELSE 0) < ops[op]

\* C19: a confirm or a snooze whose updateDose found no dose with the id
\* changes nothing: the store is as before, no timer is armed for the id
\* and no caregiver message is sent.
C19_MissingDoseNoOp ==
    [][\A op \in DOMAIN ops :
          (Returns(op) /\ op.existing = {}) =>
              /\ doses' = doses
              /\ emails' = emails
              /\ \A t \in DOMAIN timers' :
                    t.dose = op.dose =>
                        /\ t \in DOMAIN timers
                        /\ timers'[t] <= timers[t]]_vars

\* C20: when a confirm that has written 'taken' returns, a 'taken' message
\* for the dose and the time of the confirm has been sent to the caregiver
\* if caregiver notifications are enabled, whichever of the prompt, the Today
\* tab and the OS notification made the confirm; no 'taken' message is ever
\* sent while they are disabled.
C20_CaregiverToldOfTaken ==
    [][/\ \A op \in DOMAIN ops :
             (Returns(op) /\ op.kind \in ConfirmKinds /\ op.existing # {}
              /\ caregiver) =>
                 [action |-> "taken", dose |-> op.dose, time |-> op.callTime]
                     \in emails'
       /\ ~caregiver => \A m \in emails' : m.action # "taken"]_vars

----------------------------------------------------------------------------
(* Properties of the stored dose record (checked under Spec and SpecToday) *)

\* C26: a stored dose has an actualTime exactly when its status is taken.
C26_ActualTimeIffTaken ==
    \A id \in DOMAIN doses :
        doses[id].actualTime # {} <=> doses[id].status = "taken"

\* the snooze handler op writes in this step
SnoozePutBy(op) == PutBy(op) /\ op.kind \in SnoozeKinds

\* C27: the write of a snooze never leaves the dose with a scheduledTime
\* before the scheduledTime it had in the store.
C27_SnoozeNeverEarlier ==
    [][\A op \in OpsAtCall :
          (SnoozePutBy(op) /\ op.dose \in DOMAIN doses) =>
              doses'[op.dose].scheduledTime >= doses[op.dose].scheduledTime]_vars

----------------------------------------------------------------------------
(* Properties of repeated snoozes (checked under SpecSnooze) *)

\* PRD: "snooze reminders up to three times per dose"
SnoozeCap == 3

\* C21: no stored dose has been snoozed more than three times: snoozeCount
\* is at most 3 in every state.
C21_SnoozeCap == \A id \in DOMAIN doses : doses[id].snoozeCount <= SnoozeCap

----------------------------------------------------------------------------
(* Properties of the time override (checked under SpecClock) *)

\* C22: while an override to T that was set at real time r0 is in force,
\* getCurrentTime() at real time r is T + (r - r0); with no override in
\* force (none set, or the last one cleared) it is the real time.
C22_OverrideAdvances ==
    /\ \A p \in clock.pinned : GetCurrentTime = p.target + (now - p.at)
    /\ clock.pinned = {} => GetCurrentTime = now

----------------------------------------------------------------------------
(* Properties of the early return (checked under SpecCall) *)

\* the schedule that generateDosesForSchedule was called on
Called == gen.savedSchedule

\* the schedule's endDate, if it has one, is before instant t
EndsBefore(t) == \E e \in Called.endDate : e < t

----------------------------------------------------------------------------
(* Properties of the PIN lock (checked under SpecPin) *)

\* a digit is accepted in this step
DigitAccepted == Len(pin'.pin) > Len(pin.pin)

\* C24: while the screen is locked no digit is accepted and the PIN is not
\* verified; once locked, a digit is accepted again only when the 300
\* seconds of the lock have passed; and the step that unlocks leaves the
\* failed-attempt counter at 0.
C24_PinLock ==
    [][/\ pin.locked => ~DigitAccepted /\ (pin'.verified => pin.verified)
       /\ DigitAccepted => ~pin.owing
       /\ (pin.locked /\ ~pin'.locked) => pin'.attempts = 0]_vars

----------------------------------------------------------------------------
(* Properties of a failed db.put (checked under SpecFail) *)

\* the loops of the running call have a time or a date left after the
\* current one
MoreToGenerate ==
    \/ gen.timeIdx < Len(gen.savedSchedule.times)
    \/ AddDays(gen.currentDate, 1) <= gen.endDate

\* C25: when the db.put of one dose fails, the doses stored before stay in
\* the store, and if the window has times or dates left the call goes on
\* with them.
C25_PutFailureIsolated ==
    [][GenPutFails =>
          /\ doses' = doses
          /\ MoreToGenerate => gen'.pc \in {"time", "day"}]_vars

----------------------------------------------------------------------------
(* Properties of the notification's message listeners (checked under
   SpecSnooze) *)

\* C28: one 'snooze' or 'confirm' message of the service worker starts at
\* most one update of the dose, however many times the notification of the
\* dose has been shown before.
C28_OneUpdatePerMessage ==
    [][(NotificationSnooze \/ NotificationConfirm) =>
          BagSize(ops') <= BagSize(ops) + 1]_vars

----------------------------------------------------------------------------
(* Properties of a second generation run (checked under SpecRegen) *)

\* this step belongs to a generateDosesForSchedule call
GenStep == gen' # gen /\ gen.pc \in {"start", "day", "time"}

\* C11: a generateDosesForSchedule call, also a repeated one for a schedule
\* whose doses are stored, keeps every stored dose and leaves its status
\* and actualTime as they were.
C11_RegenerateKeepsDoses ==
    [][GenStep =>
          \A id \in DOMAIN doses :
              /\ id \in DOMAIN doses'
              /\ doses'[id].status = doses[id].status
              /\ doses'[id].actualTime = doses[id].actualTime]_vars

\* a second run has returned doses for a schedule of which an earlier dose
\* is taken
C11_Witness ==
    /\ GenReturned
    /\ Len(gen.generatedDoses) > 0
    /\ \E id \in DOMAIN doses :
          /\ doses[id].status = "taken"
          /\ doses[id].scheduleId = gen.schedule
          /\ \A i \in DOMAIN gen.generatedDoses :
                /\ gen.generatedDoses[i].id # id
                /\ gen.generatedDoses[i].id > id

----------------------------------------------------------------------------
(* Properties of a delete that runs beside a generation (checked under
   SpecDelGen) *)

\* no generation, delete or dose update is in flight
Quiescent ==
    /\ gen.pc \in {"idle", "done", "failed"}
    /\ deleting = {}
    /\ ops = << >>

\* C29: in every quiescent state every stored dose names a stored schedule
\* and every stored schedule names a stored medication, also when
\* deleteMedication ran beside saveSchedule and generateDosesForSchedule.
C29_ReferentialIntegrity ==
    Quiescent =>
        /\ \A i \in DOMAIN doses : doses[i].scheduleId \in DOMAIN schedules
        /\ \A i \in DOMAIN schedules : schedules[i].medicationId \in medications

----------------------------------------------------------------------------
(* Properties of a reminder timer that outlives its dose (checked under
   Spec) *)

\* showMedicationReminder has put up the notification of dose id in this step
ReminderShownFor(id) == listeners'[id] > listeners[id]

\* C30: a reminder timer that fires after its dose was deleted shows no
\* notification and updates no dose.
C30_NoReminderForDeletedDose ==
    [][TimerFire =>
          /\ \A id \in DoseIds :
                ReminderShownFor(id) => id \in DOMAIN doses
          /\ doses' = doses]_vars

====
